---- MODULE Spec2Model ----
(***************************************************************************)
(* Model of the layout / history core of src/js/designer.js (the revision  *)
(* at lines 2945-5230 of the file): the placement engine                   *)
(* (arrangeObjectOnCanvas), the reflow routine, the fill-sheet             *)
(* orchestrator and the debounced undo/redo history manager, together with *)
(* the event-loop interleavings of their asynchronous parts (object        *)
(* cloning, canvas.loadFromJSON, the 250 ms debounce timer).               *)
(*                                                                         *)
(* Conventions.  A canvas object is a record                               *)
(*     [id, name, w, h, angle, left, top]                                  *)
(* where id is the identity of the JavaScript object, name is "user",      *)
(* "bleedOverlay" or "bleedArea", w/h are the scaled width and height      *)
(* (getScaledWidth / getScaledHeight), angle is the rotation in degrees (0 *)
(* or 90) and left/top are the coordinates of the object's centre (the     *)
(* code always sets originX/originY to 'center').  Coordinates are virtual *)
(* pixels.                                                                 *)
(* A snapshot (the JSON string of saveStateImmediate) is the sequence of   *)
(* the user objects' serialised properties, in stacking order, without     *)
(* identity.                                                               *)
(***************************************************************************)
EXTENDS Integers, Sequences, FiniteSets, TLC

\* ------------------------------------------------------------------------
\* Program constants
\* ------------------------------------------------------------------------
MAX_HISTORY == 20
BLEED_PIXELS == 59
PLACEMENT_PADDING == 20
PLACEMENT_GUTTER == 12
\* A5 sheet at 300 DPI, in virtual pixels (210 mm and 148 mm * 300 / 25.4)
A5_LONG_SIDE_PX == 2480
A5_SHORT_SIDE_PX == 1748

\* ------------------------------------------------------------------------
\* Bounds of the model
\* ------------------------------------------------------------------------
\* user-initiated handler invocations per behaviour
MaxOps == 3
\* loadFromJSON promises in flight at the same time
MaxLoads == 2
\* fillSheet invocations suspended at an await at the same time
MaxFills == 1
\* user objects on the canvas before a handler that adds one
MaxObjects == 3
\* object:modified notifications (drags) per behaviour of SpecHistory
MaxDrags == 23

\* calls of the placement engine and of the reflow per behaviour of SpecLayout
MaxCalls == 2
\* user objects of an initial scene of SpecLayout and of SpecFill
MaxSceneObjects == 2
\* fillSheet invocations per behaviour of SpecFill
MaxRuns == 2
\* largest coordinate of the rectangles subtractRect is applied to
MaxCoord == 6
\* user objects of an initial scene of SpecFree
MaxFreeObjects == 3
\* largest coordinate and largest length of the lists of rectangles
\* pruneContainedRects is applied to
MaxPruneCoord == 2
MaxRects == 3

\* scaled sizes <<width, height>> of the objects a user adds
ItemSizes == {<<700, 1500>>}
\* distance of one drag to the right
DragStep == 10

\* ------------------------------------------------------------------------
\* Sequence helpers
\* ------------------------------------------------------------------------
Top(s) == s[Len(s)]
Pop(s) == SubSeq(s, 1, Len(s) - 1)
Range(s) == {s[i] : i \in 1..Len(s)}

\* the element of a one-element set; operators below bind their intermediate
\* results as "x \in {e}" so that each is computed once, as a local variable
\* of the code is
The(S) == CHOOSE x \in S : TRUE

\* ------------------------------------------------------------------------
\* Geometry (inner helpers of arrangeObjectOnCanvas)
\* ------------------------------------------------------------------------
Max2(a, b) == IF a >= b THEN a ELSE b
Min2(a, b) == IF a <= b THEN a ELSE b

Rect(l, t, r, b) == [left |-> l, top |-> t, right |-> r, bottom |-> b]

\* null is the empty sequence, a rectangle is a one-element sequence
clampRect(rect, bounds) ==
    The({IF clampedRect.left >= clampedRect.right
            \/ clampedRect.top >= clampedRect.bottom
         THEN <<>>
         ELSE <<clampedRect>>
         : clampedRect \in {Rect(Max2(rect.left, bounds.left),
                                 Max2(rect.top, bounds.top),
                                 Min2(rect.right, bounds.right),
                                 Min2(rect.bottom, bounds.bottom))}})

\* subtractRect whose left and right remainders span the whole height of
\* freeRect
subtractRect_FullHeightSides(freeRect, blockerRect) ==
    The({
    LET above == IF freeRect.top < intersection.top
                 THEN <<Rect(freeRect.left, freeRect.top,
                             freeRect.right, intersection.top)>>
                 ELSE <<>>
        below == IF intersection.bottom < freeRect.bottom
                 THEN <<Rect(freeRect.left, intersection.bottom,
                             freeRect.right, freeRect.bottom)>>
                 ELSE <<>>
        leftOf == IF freeRect.left < intersection.left
                  THEN <<Rect(freeRect.left, freeRect.top,
                              intersection.left, freeRect.bottom)>>
                  ELSE <<>>
        rightOf == IF intersection.right < freeRect.right
                   THEN <<Rect(intersection.right, freeRect.top,
                               freeRect.right, freeRect.bottom)>>
                   ELSE <<>>
        result == above \o below \o leftOf \o rightOf
    IN  IF intersection.left >= intersection.right
           \/ intersection.top >= intersection.bottom
        THEN <<freeRect>>
        ELSE SelectSeq(result, LAMBDA rect :
                 rect.right - rect.left > 1 /\ rect.bottom - rect.top > 1)
    : intersection \in {Rect(Max2(freeRect.left, blockerRect.left),
                             Max2(freeRect.top, blockerRect.top),
                             Min2(freeRect.right, blockerRect.right),
                             Min2(freeRect.bottom, blockerRect.bottom))}})

subtractRect(freeRect, blockerRect) ==
    The({
    LET above == IF freeRect.top < intersection.top
                 THEN <<Rect(freeRect.left, freeRect.top,
                             freeRect.right, intersection.top)>>
                 ELSE <<>>
        below == IF intersection.bottom < freeRect.bottom
                 THEN <<Rect(freeRect.left, intersection.bottom,
                             freeRect.right, freeRect.bottom)>>
                 ELSE <<>>
        middleTop == Max2(freeRect.top, intersection.top)
        middleBottom == Min2(freeRect.bottom, intersection.bottom)
        leftOf == IF middleBottom > middleTop /\ freeRect.left < intersection.left
                  THEN <<Rect(freeRect.left, middleTop,
                              intersection.left, middleBottom)>>
                  ELSE <<>>
        rightOf == IF middleBottom > middleTop /\ intersection.right < freeRect.right
                   THEN <<Rect(intersection.right, middleTop,
                               freeRect.right, middleBottom)>>
                   ELSE <<>>
        result == above \o below \o leftOf \o rightOf
    IN  IF intersection.left >= intersection.right
           \/ intersection.top >= intersection.bottom
        THEN <<freeRect>>
        ELSE SelectSeq(result, LAMBDA rect :
                 rect.right - rect.left > 1 /\ rect.bottom - rect.top > 1)
    : intersection \in {Rect(Max2(freeRect.left, blockerRect.left),
                             Max2(freeRect.top, blockerRect.top),
                             Min2(freeRect.right, blockerRect.right),
                             Min2(freeRect.bottom, blockerRect.bottom))}})

RECURSIVE KeepIndices(_, _, _)
\* the subsequence of s at the indices in keep, from index i on
KeepIndices(s, keep, i) ==
    IF i > Len(s) THEN <<>>
    ELSE (IF i \in keep THEN <<s[i]>> ELSE <<>>) \o KeepIndices(s, keep, i + 1)

pruneContainedRects(rects) ==
    LET contained(index) ==
            \E otherIdx \in 1..Len(rects) :
                /\ index # otherIdx
                /\ rects[otherIdx].left <= rects[index].left
                /\ rects[otherIdx].top <= rects[index].top
                /\ rects[otherIdx].right >= rects[index].right
                /\ rects[otherIdx].bottom >= rects[index].bottom
    IN  KeepIndices(rects, {i \in 1..Len(rects) : ~contained(i)}, 1)

\* the comparator with left before top: (a.left - b.left) || (a.top - b.top)
CompareTopLeft_LeftFirst(a, b) ==
    IF a.left - b.left # 0 THEN a.left - b.left ELSE a.top - b.top

\* the comparator of freeRects.sort: (a.top - b.top) || (a.left - b.left)
CompareTopLeft(a, b) ==
    IF a.top - b.top # 0 THEN a.top - b.top ELSE a.left - b.left

RECURSIVE InsertSorted(_, _)
\* stable insertion: r goes after every element that does not compare greater
InsertSorted(sorted, r) ==
    IF sorted = <<>> THEN <<r>>
    ELSE IF CompareTopLeft(Head(sorted), r) <= 0
         THEN <<Head(sorted)>> \o InsertSorted(Tail(sorted), r)
         ELSE <<r>> \o sorted

RECURSIVE SortTopLeft(_)
\* Array.prototype.sort (stable) with CompareTopLeft
SortTopLeft(rects) ==
    IF rects = <<>> THEN <<>>
    ELSE The({InsertSorted(sorted, Top(rects)) : sorted \in {SortTopLeft(Pop(rects))}})

\* freeRects.find comparing only the widths
findPlacementRect_WidthOnly(freeRects, targetWidth, targetHeight) ==
    LET hits == SelectSeq(freeRects, LAMBDA rect :
                    rect.right - rect.left >= targetWidth)
    IN  IF hits = <<>> THEN <<>> ELSE <<Head(hits)>>

\* freeRects.find(rect => width >= targetWidth && height >= targetHeight):
\* the first fitting rectangle as a one-element sequence, none as <<>>
findPlacementRect(freeRects, targetWidth, targetHeight) ==
    LET hits == SelectSeq(freeRects, LAMBDA rect :
                    /\ rect.right - rect.left >= targetWidth
                    /\ rect.bottom - rect.top >= targetHeight)
    IN  IF hits = <<>> THEN <<>> ELSE <<Head(hits)>>

\* the blocker subtracted from the first free rectangle only
SubtractFromAll_FirstOnly(freeRects, clampedBlocker) ==
    IF freeRects = <<>> THEN <<>>
    ELSE subtractRect(Head(freeRects), clampedBlocker) \o Tail(freeRects)

RECURSIVE SubtractFromAll(_, _)
\* freeRects.flatMap(rect => subtractRect(rect, clampedBlocker))
SubtractFromAll(freeRects, clampedBlocker) ==
    IF freeRects = <<>> THEN <<>>
    ELSE The({The({subtractRect(rect, clampedBlocker) \o rest
                   : rest \in {SubtractFromAll(others, clampedBlocker)}})
              : rect \in {Head(freeRects)}, others \in {Tail(freeRects)}})

\* ------------------------------------------------------------------------
\* Canvas objects
\* ------------------------------------------------------------------------
isBleedObject(obj) == obj.name = "bleedOverlay" \/ obj.name = "bleedArea"

\* canvas.getObjects().filter(obj => !isBleedObject(obj))
getUserObjects(os) == SelectSeq(os, LAMBDA obj : ~isBleedObject(obj))

\* fabric's obj.getBoundingRect() of an object with centre origin: the
\* axis-aligned box of the rotated object, whose width and height are the
\* scaled height and width when the object is rotated by a quarter turn
getBoundingRect(obj) ==
    LET width == IF obj.angle = 90 THEN obj.h ELSE obj.w
        height == IF obj.angle = 90 THEN obj.w ELSE obj.h
    IN  [left |-> obj.left - width \div 2, top |-> obj.top - height \div 2,
         width |-> width, height |-> height]

UserIds(os) == {os[i].id : i \in {j \in 1..Len(os) : ~isBleedObject(os[j])}}

ObjById(os, id) == CHOOSE obj \in Range(os) : obj.id = id /\ ~isBleedObject(obj)

\* obj.set({left, top, originX: 'center', originY: 'center'}) on object id
SetPosition(os, id, l, t) ==
    [i \in 1..Len(os) |->
        IF os[i].id = id /\ ~isBleedObject(os[i])
        THEN [os[i] EXCEPT !.left = l, !.top = t]
        ELSE os[i]]

\* canvas.width / zoom and canvas.height / zoom for the two orientations
virtualWidth(land) == IF land THEN A5_LONG_SIDE_PX ELSE A5_SHORT_SIDE_PX
virtualHeight(land) == IF land THEN A5_SHORT_SIDE_PX ELSE A5_LONG_SIDE_PX

safeRectOf(vw, vh) ==
    Rect(BLEED_PIXELS + PLACEMENT_PADDING, BLEED_PIXELS + PLACEMENT_PADDING,
         vw - BLEED_PIXELS - PLACEMENT_PADDING, vh - BLEED_PIXELS - PLACEMENT_PADDING)

\* the gutter-expanded bounding box of a blocker
blockerOf(obj) ==
    The({Rect(bounds.left - PLACEMENT_GUTTER,
              bounds.top - PLACEMENT_GUTTER,
              bounds.left + bounds.width + PLACEMENT_GUTTER,
              bounds.top + bounds.height + PLACEMENT_GUTTER)
         : bounds \in {getBoundingRect(obj)}})

RECURSIVE SubtractBlockers(_, _, _)
\* blockers.forEach(...): subtract every clamped blocker from the free list
SubtractBlockers(freeRects, blockers, safeRect) ==
    IF blockers = <<>> THEN freeRects
    ELSE The({
         LET next == IF clampedBlocker # <<>>
                     THEN SubtractFromAll(freeRects, clampedBlocker[1])
                     ELSE freeRects
         IN  The({SubtractBlockers(rects, Tail(blockers), safeRect)
                  : rects \in {next}})
         : clampedBlocker \in {clampRect(blockerOf(Head(blockers)), safeRect)}})

\* the free-rectangle list started from the whole surface instead of the
\* safe area
computeFreeRects_WholeSurface(os, id, safeRect) ==
    LET whole == Rect(0, 0, safeRect.right + safeRect.left,
                      safeRect.bottom + safeRect.top)
    IN  The({The({The({SortTopLeft(pruned)
                       : pruned \in {pruneContainedRects(freeRects)}})
                  : freeRects \in {SubtractBlockers(<<whole>>, blockers, safeRect)}})
             : blockers \in {SelectSeq(getUserObjects(os), LAMBDA obj : obj.id # id)}})

\* the free-rectangle list of a placement, pruned and sorted
computeFreeRects(os, id, safeRect) ==
    The({The({The({SortTopLeft(pruned)
                   : pruned \in {pruneContainedRects(freeRects)}})
              : freeRects \in {SubtractBlockers(<<safeRect>>, blockers, safeRect)}})
         : blockers \in {SelectSeq(getUserObjects(os), LAMBDA obj : obj.id # id)}})

\* arrangeObjectOnCanvas(objToArrange) on a canvas of virtual size vw x vh;
\* the result is the object list after the call and the returned boolean
arrangeObjectOnCanvas(os, id, vw, vh) ==
    LET safeRect == safeRectOf(vw, vh)
        objToArrange == ObjById(os, id)
        targetWidth == objToArrange.w
        targetHeight == objToArrange.h
    IN  IF safeRect.right <= safeRect.left \/ safeRect.bottom <= safeRect.top
        THEN [objs |-> SetPosition(os, id, vw \div 2, vh \div 2), placed |-> FALSE]
        ELSE The({
            IF placementRect # <<>>
            THEN [objs |-> SetPosition(os, id,
                                       placementRect[1].left + targetWidth \div 2,
                                       placementRect[1].top + targetHeight \div 2),
                  placed |-> TRUE]
            ELSE [objs |-> SetPosition(os, id,
                                       (safeRect.left + safeRect.right) \div 2,
                                       (safeRect.top + safeRect.bottom) \div 2),
                  placed |-> FALSE]
            : placementRect \in {findPlacementRect(
                  computeFreeRects(os, id, safeRect), targetWidth, targetHeight)}})

\* ------------------------------------------------------------------------
\* Program state.  A handler is an operator from the program state st, a
\* record of the module-level variables of designer.js and of the promises
\* and timers pending in the event loop, to the state after the handler.
\*   objs          canvas.getObjects(), bottom to top
\*   landscape     lastOrientationIsLandscape
\*   surface       <<canvas.width / zoom, canvas.height / zoom>>
\*   undoStack, redoStack, isRestoring, saveStateTimeout
\*   timers        the timers armed by setTimeout and not yet expired/cleared
\*   loads         the snapshots of the canvas.loadFromJSON calls in flight
\*   fills         the fillSheet invocations suspended at "await base.clone()"
\* and, for the observation of the handler, requests: the number of times the
\* handler has armed the debounce timer so far.
\* ------------------------------------------------------------------------

\* JSON.stringify of the user objects' toJSON(), in stacking order
Serialize(os) ==
    LET users == getUserObjects(os)
    IN  [i \in 1..Len(users) |->
            [w |-> users[i].w, h |-> users[i].h, angle |-> users[i].angle,
             left |-> users[i].left, top |-> users[i].top]]

\* identities held by suspended fillSheet invocations (placedOriginals)
HeldIds(fs) == UNION {{fs[i].placedOriginals[j].id :
                          j \in 1..Len(fs[i].placedOriginals)} : i \in 1..Len(fs)}

RECURSIVE FreshIds(_, _, _)
\* n identities of new JavaScript objects, distinct from the ones in used
FreshIds(used, n, from) ==
    IF n = 0 THEN <<>>
    ELSE IF from \in used THEN FreshIds(used, n, from + 1)
    ELSE <<from>> \o FreshIds(used, n - 1, from + 1)

FreshId(st) == FreshIds(UserIds(st.objs) \cup HeldIds(st.fills), 1, 1)[1]

\* the objects fabric enlivens from a snapshot: new identities, same properties
Enliven(state, used) ==
    LET ids == FreshIds(used, Len(state), 1)
    IN  [i \in 1..Len(state) |->
            [id |-> ids[i], name |-> "user", w |-> state[i].w, h |-> state[i].h,
             angle |-> state[i].angle,
             left |-> state[i].left, top |-> state[i].top]]

\* ------------------------------------------------------------------------
\* Canvas events and the handlers registered on them by initCanvas
\* ------------------------------------------------------------------------
\* bringBleedObjectsToFront(): every bleed object is moved to the top in turn
bringBleedObjectsToFront(s) ==
    The({IF st.isRestoring THEN st
         ELSE [st EXCEPT !.objs =
                  SelectSeq(st.objs, LAMBDA obj : ~isBleedObject(obj))
                  \o SelectSeq(st.objs, LAMBDA obj : isBleedObject(obj))]
         : st \in {s}})

\* setTimeout returns a handle that differs from every pending timer and
\* from the handle just cleared
NewTimerId(pending, handle) ==
    CHOOSE id \in 1..(Cardinality(pending) + 2) :
        /\ id \notin pending /\ id # handle
        /\ \A other \in 1..(id - 1) : other \in pending \/ other = handle

\* saveStateImmediate evicting as soon as MAX_HISTORY entries are reached
saveStateImmediate_EvictsEarly(s) ==
    The({
    IF st.isRestoring THEN st
    ELSE LET state == Serialize(st.objs)
             pushed == Append(st.undoStack, state)
         IN  IF Len(st.undoStack) = 0 \/ Top(st.undoStack) # state
             THEN [st EXCEPT !.undoStack = IF Len(pushed) >= MAX_HISTORY
                                           THEN Tail(pushed) ELSE pushed,
                             !.redoStack = <<>>]
             ELSE st
    : st \in {s}})

\* saveStateImmediate without "redoStack = []"
saveStateImmediate_KeepsRedo(s) ==
    The({
    IF st.isRestoring THEN st
    ELSE LET state == Serialize(st.objs)
             pushed == Append(st.undoStack, state)
         IN  IF Len(st.undoStack) = 0 \/ Top(st.undoStack) # state
             THEN [st EXCEPT !.undoStack = IF Len(pushed) > MAX_HISTORY
                                           THEN Tail(pushed) ELSE pushed]
             ELSE st
    : st \in {s}})

\* saveStateImmediate with "redoStack = []" outside the if
saveStateImmediate_AlwaysClearsRedo(s) ==
    The({
    IF st.isRestoring THEN st
    ELSE LET state == Serialize(st.objs)
             pushed == Append(st.undoStack, state)
         IN  IF Len(st.undoStack) = 0 \/ Top(st.undoStack) # state
             THEN [st EXCEPT !.undoStack = IF Len(pushed) > MAX_HISTORY
                                           THEN Tail(pushed) ELSE pushed,
                             !.redoStack = <<>>]
             ELSE [st EXCEPT !.redoStack = <<>>]
    : st \in {s}})

\* saveStateImmediate without the eviction of the oldest entry
saveStateImmediate_NeverEvicts(s) ==
    The({
    IF st.isRestoring THEN st
    ELSE LET state == Serialize(st.objs)
             pushed == Append(st.undoStack, state)
         IN  IF Len(st.undoStack) = 0 \/ Top(st.undoStack) # state
             THEN [st EXCEPT !.undoStack = pushed,
                             !.redoStack = <<>>]
             ELSE st
    : st \in {s}})

\* saveStateImmediate(): push the serialisation if it differs from the top
saveStateImmediate(s) ==
    The({
    IF st.isRestoring THEN st
    ELSE LET state == Serialize(st.objs)
             pushed == Append(st.undoStack, state)
         IN  IF Len(st.undoStack) = 0 \/ Top(st.undoStack) # state
             THEN [st EXCEPT !.undoStack = IF Len(pushed) > MAX_HISTORY
                                           THEN Tail(pushed) ELSE pushed,
                             !.redoStack = <<>>]
             ELSE st
    : st \in {s}})

\* saveState without clearTimeout: the pending timer stays armed
saveState_KeepsPending(s) ==
    The({IF st.isRestoring THEN st
         ELSE LET id == NewTimerId(st.timers, st.saveStateTimeout)
              IN  [st EXCEPT !.timers = st.timers \cup {id}, !.saveStateTimeout = id,
                             !.requests = @ + 1]
         : st \in {s}})

\* saveState without the debounce: the capture runs at once
saveState_NoDebounce(st) ==
    saveStateImmediate(st)

\* saveState without the test of isRestoring
saveState_Unguarded(s) ==
    The({LET cleared == st.timers \ {st.saveStateTimeout}
             id == NewTimerId(cleared, st.saveStateTimeout)
         IN  [st EXCEPT !.timers = cleared \cup {id}, !.saveStateTimeout = id,
                        !.requests = @ + 1]
         : st \in {s}})

\* saveState(): debounce - clear the pending timer, arm a new one
saveState(s) ==
    The({IF st.isRestoring THEN st
         ELSE LET cleared == st.timers \ {st.saveStateTimeout}
                  id == NewTimerId(cleared, st.saveStateTimeout)
              IN  [st EXCEPT !.timers = cleared \cup {id}, !.saveStateTimeout = id,
                             !.requests = @ + 1]
         : st \in {s}})

\* canvas.add(obj): object:added -> bringBleedObjectsToFront, saveState
canvasAdd(st, obj) ==
    saveState(bringBleedObjectsToFront([st EXCEPT !.objs = Append(@, obj)]))

\* canvas.remove of the object at index i: object:removed -> saveState
canvasRemoveAt(st, i) ==
    saveState([st EXCEPT !.objs = SubSeq(@, 1, i - 1) \o SubSeq(@, i + 1, Len(@))])

\* index of the user object with identity id on the canvas, 0 if absent
IndexOfId(os, id) ==
    IF id \in UserIds(os)
    THEN CHOOSE i \in 1..Len(os) : ~isBleedObject(os[i]) /\ os[i].id = id
    ELSE 0

\* canvas.remove(obj) of a user object: nothing happens if it is not there
canvasRemove(s, id) ==
    The({IF IndexOfId(st.objs, id) = 0 THEN st
         ELSE canvasRemoveAt(st, IndexOfId(st.objs, id))
         : st \in {s}})

RECURSIVE RemoveEach(_, _)
\* objects.forEach(obj => canvas.remove(obj)) for a sequence of identities
RemoveEach(s, ids) ==
    IF ids = <<>> THEN s
    ELSE The({RemoveEach(st, Tail(ids)) : st \in {canvasRemove(s, Head(ids))}})

RECURSIVE AddEach(_, _)
\* canvas.add(o) for every o of a sequence, in order
AddEach(s, newObjs) ==
    IF newObjs = <<>> THEN s
    ELSE The({AddEach(st, Tail(newObjs)) : st \in {canvasAdd(s, Head(newObjs))}})

BleedObj(n) ==
    [id |-> 0, name |-> n, w |-> 0, h |-> 0, angle |-> 0, left |-> 0, top |-> 0]

\* the five decoration objects createBleedArea adds, in order
BleedObjects == <<BleedObj("bleedOverlay"), BleedObj("bleedOverlay"),
                  BleedObj("bleedOverlay"), BleedObj("bleedOverlay"),
                  BleedObj("bleedArea")>>

RECURSIVE RemoveBleed(_)
\* the forEach of createBleedArea that removes the existing bleed objects
RemoveBleed(s) ==
    The({LET idx == {i \in 1..Len(st.objs) : isBleedObject(st.objs[i])}
         IN  IF idx = {} THEN st
             ELSE RemoveBleed(canvasRemoveAt(st,
                      CHOOSE i \in idx : \A j \in idx : i <= j))
         : st \in {s}})

\* createBleedArea(): remove the bleed objects, add five new ones, bring them
\* to the front
createBleedArea(st) ==
    bringBleedObjectsToFront(AddEach(RemoveBleed(st), BleedObjects))

\* arrangeObjectOnCanvas applied to the object id of the program state
Arrange(s, id) ==
    The({The({[st |-> [st EXCEPT !.objs = res.objs], placed |-> res.placed]
              : res \in {arrangeObjectOnCanvas(st.objs, id,
                             st.surface[1], st.surface[2])}})
         : st \in {s}})

\* ------------------------------------------------------------------------
\* History manager
\* ------------------------------------------------------------------------
\* restoreState(state) up to the call of canvas.loadFromJSON
restoreState(st, state) ==
    [st EXCEPT !.isRestoring = TRUE, !.loads = Append(@, state)]

\* undo restoring the entry it has just popped
undo_RestoresPopped(st) ==
    IF Len(st.undoStack) <= 1 THEN st
    ELSE LET currentState == Top(st.undoStack)
             popped == [st EXCEPT !.undoStack = Pop(@),
                                  !.redoStack = Append(@, currentState)]
         IN  restoreState(popped, currentState)

\* undo returning early only when the undo stack is empty
undo_PopsLastEntry(st) ==
    IF Len(st.undoStack) < 1 THEN st
    ELSE LET currentState == Top(st.undoStack)
             popped == [st EXCEPT !.undoStack = Pop(@),
                                  !.redoStack = Append(@, currentState)]
         IN  restoreState(popped, IF popped.undoStack = <<>> THEN <<>>
                                  ELSE Top(popped.undoStack))

undo(st) ==
    IF Len(st.undoStack) <= 1 THEN st
    ELSE LET currentState == Top(st.undoStack)
             popped == [st EXCEPT !.undoStack = Pop(@),
                                  !.redoStack = Append(@, currentState)]
             previousState == Top(popped.undoStack)
         IN  restoreState(popped, previousState)

\* redo leaving the entry it re-applies on the redo stack
redo_KeepsEntry(st) ==
    IF Len(st.redoStack) = 0 THEN st
    ELSE LET state == Top(st.redoStack)
         IN  restoreState([st EXCEPT !.undoStack = Append(@, state)], state)

redo(st) ==
    IF Len(st.redoStack) = 0 THEN st
    ELSE LET state == Top(st.redoStack)
         IN  restoreState([st EXCEPT !.redoStack = Pop(@),
                                     !.undoStack = Append(@, state)], state)

\* the promise of the i-th loadFromJSON in flight resolves: fabric clears the
\* canvas and adds the enlivened objects, then the .then callback of
\* restoreState runs
loadResolved(st, i) ==
    LET state == st.loads[i]
        removed == [st EXCEPT !.loads = SubSeq(@, 1, i - 1) \o SubSeq(@, i + 1, Len(@))]
        cleared == RemoveEach(RemoveBleed(removed),
                       [k \in 1..Len(getUserObjects(removed.objs)) |->
                           getUserObjects(removed.objs)[k].id])
        loaded == AddEach(cleared, Enliven(state, HeldIds(st.fills)))
        bleed == createBleedArea(loaded)
    IN  [bleed EXCEPT !.isRestoring = FALSE]

\* the promise of the i-th loadFromJSON in flight rejects: restoreState
\* attached no rejection handler
loadRejected(st, i) ==
    [st EXCEPT !.loads = SubSeq(@, 1, i - 1) \o SubSeq(@, i + 1, Len(@))]

\* expiry of the debounce timer id: the callback armed by saveState
timerExpired(st, id) ==
    saveStateImmediate([st EXCEPT !.timers = @ \ {id}])

\* ------------------------------------------------------------------------
\* User handlers
\* ------------------------------------------------------------------------
\* the .then callback of addImageFromDialog for an image of scaled size sz
addImageFromDialog(st, sz) ==
    LET img == [id |-> FreshId(st), name |-> "user", w |-> sz[1], h |-> sz[2],
                angle |-> 0,
                left |-> st.surface[1] \div 2,
                top |-> st.surface[2] \div 2]
    IN  Arrange(canvasAdd(st, img), img.id).st

\* the user drags object id by dx: fabric moves it and fires object:modified
objectModified(st, id, dx) ==
    LET obj == ObjById(st.objs, id)
        moved == [st EXCEPT !.objs = SetPosition(@, id, obj.left + dx, obj.top)]
    IN  saveState(bringBleedObjectsToFront(moved))

\* the identities in sel in stacking order
IdsInOrder(os, sel) ==
    LET users == SelectSeq(os, LAMBDA o : ~isBleedObject(o) /\ o.id \in sel)
    IN  [i \in 1..Len(users) |-> users[i].id]

\* deleteSelected() with the user objects sel as the active object
deleteSelected(st, sel) ==
    IF sel = {} THEN st
    ELSE IF Cardinality(sel) > 1
    THEN LET removed == RemoveEach([st EXCEPT !.isRestoring = TRUE],
                                   IdsInOrder(st.objs, sel))
         IN  saveState([removed EXCEPT !.isRestoring = FALSE])
    ELSE canvasRemove(st, CHOOSE id \in sel : TRUE)

\* clearCanvas() when the user confirms
clearCanvas(st) ==
    LET objects == IdsInOrder(st.objs, UserIds(st.objs))
    IN  IF Len(objects) = 0 THEN st
        ELSE saveState([RemoveEach([st EXCEPT !.isRestoring = TRUE], objects)
                            EXCEPT !.isRestoring = FALSE])

RECURSIVE ReAddAndArrange(_, _, _)
\* forEach(obj => { canvas.add(obj); placed = arrangeObjectOnCanvas(obj) ... }):
\* the state afterwards and the objects whose placement returned true
ReAddAndArrange(st, objects, placedSoFar) ==
    IF objects = <<>> THEN [st |-> st, placed |-> placedSoFar]
    ELSE The({ReAddAndArrange(res.st, Tail(objects),
                 IF res.placed
                 THEN Append(placedSoFar, ObjById(res.st.objs, Head(objects).id))
                 ELSE placedSoFar)
              : res \in {Arrange(canvasAdd(st, Head(objects)), Head(objects).id)}})

\* a user object's bounding box is not inside the safe area
OutOfBounds(obj, safeRect) ==
    LET bounds == getBoundingRect(obj)
    IN  \/ bounds.left < safeRect.left
        \/ bounds.top < safeRect.top
        \/ bounds.left + bounds.width > safeRect.right
        \/ bounds.top + bounds.height > safeRect.bottom

\* reflowObjectsIntoSafeArea without the return on an empty list of
\* out-of-bounds objects
reflowObjectsIntoSafeArea_NoEmptyCheck(st) ==
    LET safeRect == safeRectOf(st.surface[1], st.surface[2])
        outOfBoundsObjects == SelectSeq(getUserObjects(st.objs),
                                        LAMBDA obj : OutOfBounds(obj, safeRect))
        previousRestoringState == st.isRestoring
        removed == RemoveEach([st EXCEPT !.isRestoring = TRUE],
                       [i \in 1..Len(outOfBoundsObjects) |-> outOfBoundsObjects[i].id])
        readded == ReAddAndArrange(removed, outOfBoundsObjects, <<>>).st
        fronted == bringBleedObjectsToFront(readded)
        reset == [fronted EXCEPT !.isRestoring = previousRestoringState]
    IN  IF safeRect.right <= safeRect.left \/ safeRect.bottom <= safeRect.top
        THEN st
        ELSE IF ~previousRestoringState THEN saveState(reset) ELSE reset

\* reflowObjectsIntoSafeArea without the return on an invalid safe area
reflowObjectsIntoSafeArea_NoAreaCheck(st) ==
    LET safeRect == safeRectOf(st.surface[1], st.surface[2])
        outOfBoundsObjects == SelectSeq(getUserObjects(st.objs),
                                        LAMBDA obj : OutOfBounds(obj, safeRect))
        previousRestoringState == st.isRestoring
        removed == RemoveEach([st EXCEPT !.isRestoring = TRUE],
                       [i \in 1..Len(outOfBoundsObjects) |-> outOfBoundsObjects[i].id])
        readded == ReAddAndArrange(removed, outOfBoundsObjects, <<>>).st
        fronted == bringBleedObjectsToFront(readded)
        reset == [fronted EXCEPT !.isRestoring = previousRestoringState]
    IN  IF Len(outOfBoundsObjects) = 0 THEN st
        ELSE IF ~previousRestoringState THEN saveState(reset) ELSE reset

\* reflowObjectsIntoSafeArea re-arranging every user object as soon as one
\* of them is out of bounds
reflowObjectsIntoSafeArea_ReflowsAll(st) ==
    LET safeRect == safeRectOf(st.surface[1], st.surface[2])
        outOfBoundsObjects == getUserObjects(st.objs)
        previousRestoringState == st.isRestoring
        removed == RemoveEach([st EXCEPT !.isRestoring = TRUE],
                       [i \in 1..Len(outOfBoundsObjects) |-> outOfBoundsObjects[i].id])
        readded == ReAddAndArrange(removed, outOfBoundsObjects, <<>>).st
        fronted == bringBleedObjectsToFront(readded)
        reset == [fronted EXCEPT !.isRestoring = previousRestoringState]
    IN  IF safeRect.right <= safeRect.left \/ safeRect.bottom <= safeRect.top
        THEN st
        ELSE IF \A i \in 1..Len(outOfBoundsObjects) :
                    ~OutOfBounds(outOfBoundsObjects[i], safeRect)
        THEN st
        ELSE IF ~previousRestoringState THEN saveState(reset) ELSE reset

reflowObjectsIntoSafeArea(st) ==
    LET safeRect == safeRectOf(st.surface[1], st.surface[2])
        outOfBoundsObjects == SelectSeq(getUserObjects(st.objs),
                                        LAMBDA obj : OutOfBounds(obj, safeRect))
        previousRestoringState == st.isRestoring
        removed == RemoveEach([st EXCEPT !.isRestoring = TRUE],
                       [i \in 1..Len(outOfBoundsObjects) |-> outOfBoundsObjects[i].id])
        readded == ReAddAndArrange(removed, outOfBoundsObjects, <<>>).st
        fronted == bringBleedObjectsToFront(readded)
        reset == [fronted EXCEPT !.isRestoring = previousRestoringState]
    IN  IF safeRect.right <= safeRect.left \/ safeRect.bottom <= safeRect.top
        THEN st
        ELSE IF Len(outOfBoundsObjects) = 0 THEN st
        ELSE IF ~previousRestoringState THEN saveState(reset) ELSE reset

\* the objects of a reflowObjectsIntoSafeArea() call in state st whose
\* arrangeObjectOnCanvas returned true (the ones not in failedRepositions),
\* as they are after their placement
ReflowPlaced(st) ==
    LET safeRect == safeRectOf(st.surface[1], st.surface[2])
        outOfBoundsObjects == SelectSeq(getUserObjects(st.objs),
                                        LAMBDA obj : OutOfBounds(obj, safeRect))
        removed == RemoveEach([st EXCEPT !.isRestoring = TRUE],
                       [i \in 1..Len(outOfBoundsObjects) |-> outOfBoundsObjects[i].id])
    IN  IF safeRect.right <= safeRect.left \/ safeRect.bottom <= safeRect.top
        THEN <<>>
        ELSE ReAddAndArrange(removed, outOfBoundsObjects, <<>>).placed

\* scaleCanvas() when the window orientation has changed
scaleCanvas(st) ==
    reflowObjectsIntoSafeArea(
        createBleedArea([st EXCEPT !.landscape = ~st.landscape,
                                   !.surface = <<virtualWidth(~st.landscape),
                                                 virtualHeight(~st.landscape)>>]))

\* ------------------------------------------------------------------------
\* fillSheet
\* ------------------------------------------------------------------------
\* the finally block of fillSheet
fillFinally(st) ==
    saveState([bringBleedObjectsToFront(st) EXCEPT !.isRestoring = FALSE])

\* the placedOriginals of a fillSheet() call in state st: the originals whose
\* arrangeObjectOnCanvas returned true, as they are after their placement
FillPlaced(st) ==
    LET userObjects == getUserObjects(st.objs)
        removed == RemoveEach([st EXCEPT !.isRestoring = TRUE],
                       [i \in 1..Len(userObjects) |-> userObjects[i].id])
    IN  ReAddAndArrange(removed, userObjects, <<>>).placed

\* the alert a fillSheet() call in state st shows, "" if it shows none
fillSheetAlert(st) ==
    IF Len(getUserObjects(st.objs)) = 0
    THEN "Please add some images first!"
    ELSE IF Len(FillPlaced(st)) > 0 THEN ""
    ELSE "No objects could be arranged within the safe area."

\* fillSheet leaving through the alert of line 3862 without the finally block
fillSheet_NoFinally(st) ==
    LET userObjects == getUserObjects(st.objs)
        removed == RemoveEach([st EXCEPT !.isRestoring = TRUE],
                       [i \in 1..Len(userObjects) |-> userObjects[i].id])
    IN  IF Len(userObjects) = 0 THEN st
        ELSE The({
            LET placedOriginals == arranged.placed
            IN  IF Len(placedOriginals) > 0
                THEN [arranged.st EXCEPT !.fills = Append(@,
                         [placedOriginals |-> placedOriginals, idx |-> 1,
                          clonesPlacedInPass |-> 0])]
                ELSE arranged.st
            : arranged \in {ReAddAndArrange(removed, userObjects, <<>>)}})

\* fillSheet() up to its first await, or to its end if it never awaits
fillSheet(st) ==
    LET userObjects == getUserObjects(st.objs)
        removed == RemoveEach([st EXCEPT !.isRestoring = TRUE],
                       [i \in 1..Len(userObjects) |-> userObjects[i].id])
    IN  IF Len(userObjects) = 0 THEN st
        ELSE The({
            LET placedOriginals == arranged.placed
            IN  IF Len(placedOriginals) > 0
                THEN [arranged.st EXCEPT !.fills = Append(@,
                         [placedOriginals |-> placedOriginals, idx |-> 1,
                          clonesPlacedInPass |-> 0])]
                ELSE fillFinally(arranged.st)
            : arranged \in {ReAddAndArrange(removed, userObjects, <<>>)}})

\* the rest of the for/do-while after the body for base number idx, up to
\* the next await or through the finally block
fillContinue(s, f, count) ==
    The({LET run == st.fills[f]
         IN  IF run.idx < Len(run.placedOriginals)
             THEN [st EXCEPT !.fills[f].idx = run.idx + 1,
                             !.fills[f].clonesPlacedInPass = count]
             ELSE IF count > 0
             THEN [st EXCEPT !.fills[f].idx = 1, !.fills[f].clonesPlacedInPass = 0]
             ELSE fillFinally([st EXCEPT !.fills =
                      SubSeq(@, 1, f - 1) \o SubSeq(@, f + 1, Len(@))])
         : st \in {s}})

\* cloneResolved counting a discarded clone as placed
cloneResolved_CountsDiscarded(st, f) ==
    LET run == st.fills[f]
        base == run.placedOriginals[run.idx]
        clone == [base EXCEPT !.id = FreshId(st)]
    IN  The({IF res.placed
             THEN fillContinue(res.st, f, run.clonesPlacedInPass + 1)
             ELSE fillContinue(canvasRemove(res.st, clone.id), f, run.clonesPlacedInPass + 1)
             : res \in {Arrange(canvasAdd(st, clone), clone.id)}})

\* cloneResolved removing the original instead of the clone that found no slot
cloneResolved_DiscardsBase(st, f) ==
    LET run == st.fills[f]
        base == run.placedOriginals[run.idx]
        clone == [base EXCEPT !.id = FreshId(st)]
    IN  The({IF res.placed
             THEN fillContinue(res.st, f, run.clonesPlacedInPass + 1)
             ELSE fillContinue(canvasRemove(res.st, base.id), f, run.clonesPlacedInPass)
             : res \in {Arrange(canvasAdd(st, clone), clone.id)}})

\* cloneResolved without "canvas.remove(clone)"
cloneResolved_KeepsFailed(st, f) ==
    LET run == st.fills[f]
        base == run.placedOriginals[run.idx]
        clone == [base EXCEPT !.id = FreshId(st)]
    IN  The({IF res.placed
             THEN fillContinue(res.st, f, run.clonesPlacedInPass + 1)
             ELSE fillContinue(res.st, f, run.clonesPlacedInPass)
             : res \in {Arrange(canvasAdd(st, clone), clone.id)}})

\* "await base.clone()" of the suspended run f resolves
cloneResolved(st, f) ==
    LET run == st.fills[f]
        base == run.placedOriginals[run.idx]
        clone == [base EXCEPT !.id = FreshId(st)]
    IN  The({IF res.placed
             THEN fillContinue(res.st, f, run.clonesPlacedInPass + 1)
             ELSE fillContinue(canvasRemove(res.st, clone.id), f, run.clonesPlacedInPass)
             : res \in {Arrange(canvasAdd(st, clone), clone.id)}})

\* a rejection caught by the outer catch: the run goes to its finally block
cloneRejected_AbortsRun(st, f) ==
    fillFinally([st EXCEPT !.fills = SubSeq(@, 1, f - 1) \o SubSeq(@, f + 1, Len(@))])

\* "await base.clone()" of the suspended run f rejects: the inner catch
cloneRejected(st, f) ==
    fillContinue(st, f, st.fills[f].clonesPlacedInPass)

\* ------------------------------------------------------------------------
\* State machine
\* ------------------------------------------------------------------------
VARIABLES objs, landscape, surface, undoStack, redoStack, isRestoring,
          saveStateTimeout, timers, loads, fills,
          ops, last, pre, timerBy, burst, captured, linear, call

vars == <<objs, landscape, surface, undoStack, redoStack, isRestoring,
          saveStateTimeout, timers, loads, fills,
          ops, last, pre, timerBy, burst, captured, linear, call>>

\* the variables of the program; the others are bookkeeping of the model
prog == <<objs, landscape, surface, undoStack, redoStack, isRestoring,
          saveStateTimeout, timers, loads, fills>>

State == [objs |-> objs, landscape |-> landscape, surface |-> surface,
          undoStack |-> undoStack,
          redoStack |-> redoStack, isRestoring |-> isRestoring,
          saveStateTimeout |-> saveStateTimeout, timers |-> timers,
          loads |-> loads, fills |-> fills, requests |-> 0]

NoPre == [op |-> "none", u |-> <<>>, r |-> <<>>, scene |-> <<>>, burst |-> 0]

HistoryOps == {"undo", "redo", "capture:pushed", "capture:same", "capture:blocked"}

CaptureKinds == {"capture:pushed", "capture:same", "capture:blocked"}

NoCall == [fn |-> "none", id |-> 0, placed |-> FALSE, before |-> <<>>,
           free |-> <<>>, originals |-> <<>>,
           freeRect |-> <<>>, blockerRect |-> <<>>, result |-> <<>>,
           alert |-> ""]

\* what is remembered of the call of handler who that takes the program to
\* st: the scene a fillSheet run or a reflow started from and the objects
\* the run placed (originals); kept while the run's clones settle and captures run,
\* forgotten when another handler runs
CallAfter(who, st) ==
    IF who = "fillSheet"
    THEN [NoCall EXCEPT !.fn = who, !.before = getUserObjects(objs),
                        !.originals = IF Len(st.fills) > Len(fills)
                                      THEN Top(st.fills).placedOriginals
                                      ELSE <<>>,
                        !.alert = fillSheetAlert(State)]
    ELSE IF who = "reflow"
    THEN [NoCall EXCEPT !.fn = who, !.before = getUserObjects(objs),
                        !.originals = ReflowPlaced(State)]
    ELSE IF who \in {"clone", "cloneFail"} \cup CaptureKinds THEN call
    ELSE NoCall

\* A step of the event loop: handler who takes the program to st; cost is 1
\* for a handler the user starts; c is what is remembered of the call.
\*   last      the handler that ran, with the kind of capture for a timer
\*   pre       history and scene before the last undo, redo or capture (kept
\*             while the restore it started settles)
\*   timerBy   the handler that armed the debounce timer last
\*   burst     the number of requests that have armed or re-armed the timer
\*             since the last expiry (pre.burst: before that expiry)
\*   captured  while linear: the serialisations pushed by captures, in order
\*   linear    no undo or redo has changed the stacks so far
\*   call      the call c under observation
StepWith(who, st, cost, c) ==
    /\ objs' = st.objs
    /\ landscape' = st.landscape
    /\ surface' = st.surface
    /\ call' = c
    /\ undoStack' = st.undoStack
    /\ redoStack' = st.redoStack
    /\ isRestoring' = st.isRestoring
    /\ saveStateTimeout' = st.saveStateTimeout
    /\ timers' = st.timers
    /\ loads' = st.loads
    /\ fills' = st.fills
    /\ ops' = ops + cost
    /\ last' = who
    /\ pre' = IF who \in HistoryOps
              THEN [op |-> who, u |-> undoStack, r |-> redoStack,
                    scene |-> Serialize(objs), burst |-> burst]
              ELSE IF who \in {"restored", "restoreFail"} THEN pre
              ELSE NoPre
    /\ timerBy' = IF st.requests > 0 THEN who ELSE timerBy
    /\ burst' = IF who \in CaptureKinds THEN 0 ELSE burst + st.requests
    /\ linear' = (linear /\ ~(who \in {"undo", "redo"} /\ st.undoStack # undoStack))
    /\ captured' = IF ~linear' THEN <<>>
                   ELSE IF who = "capture:pushed"
                   THEN Append(captured, Serialize(objs))
                   ELSE captured

Step(who, s, cost) ==
    \E st \in {s} : StepWith(who, st, cost, CallAfter(who, st))

\* initCanvas(): scaleCanvas creates the bleed objects before the change
\* handlers are registered, then saveState() arms the first capture
InitProgram ==
    /\ objs = BleedObjects
    /\ landscape = TRUE
    /\ surface = <<virtualWidth(TRUE), virtualHeight(TRUE)>>
    /\ call = NoCall
    /\ undoStack = <<>>
    /\ redoStack = <<>>
    /\ isRestoring = FALSE
    /\ saveStateTimeout = 1
    /\ timers = {1}
    /\ loads = <<>>
    /\ fills = <<>>
    /\ ops = 0
    /\ last = "initCanvas"
    /\ pre = NoPre
    /\ timerBy = "initCanvas"
    /\ burst = 1
    /\ captured = <<>>

Init == InitProgram /\ linear = FALSE

AddItem ==
    /\ ops < MaxOps
    /\ Len(getUserObjects(objs)) < MaxObjects
    /\ \E sz \in ItemSizes : Step("add", addImageFromDialog(State, sz), 1)

DeleteSelected ==
    /\ ops < MaxOps
    /\ \E sel \in SUBSET UserIds(objs) :
           /\ sel # {}
           /\ Step("deleteSelected", deleteSelected(State, sel), 1)

ClearCanvas ==
    /\ ops < MaxOps
    /\ Step("clearCanvas", clearCanvas(State), 1)

ScaleCanvas ==
    /\ ops < MaxOps
    /\ Step("scaleCanvas", scaleCanvas(State), 1)

FillSheet ==
    /\ ops < MaxOps
    /\ Len(fills) < MaxFills
    /\ Step("fillSheet", fillSheet(State), 1)

CloneResolved ==
    \E f \in 1..Len(fills) : Step("clone", cloneResolved(State, f), 0)

CloneRejected ==
    \E f \in 1..Len(fills) : Step("cloneFail", cloneRejected(State, f), 0)

Undo ==
    /\ ops < MaxOps
    /\ Len(loads) < MaxLoads
    /\ Step("undo", undo(State), 1)

Redo ==
    /\ ops < MaxOps
    /\ Len(loads) < MaxLoads
    /\ Step("redo", redo(State), 1)

LoadResolved ==
    \E i \in 1..Len(loads) : Step("restored", loadResolved(State, i), 0)

LoadRejected ==
    \E i \in 1..Len(loads) : Step("restoreFail", loadRejected(State, i), 0)

\* what the capture of a timer expiry finds: the guard set, the serialisation
\* equal to the top of the undo stack, or a new serialisation
CaptureKind ==
    IF isRestoring THEN "capture:blocked"
    ELSE IF undoStack # <<>> /\ Top(undoStack) = Serialize(objs) THEN "capture:same"
    ELSE "capture:pushed"

TimerExpired ==
    \E id \in timers : Step(CaptureKind, timerExpired(State, id), 0)

Next ==
    \/ AddItem
    \/ DeleteSelected
    \/ ClearCanvas
    \/ ScaleCanvas
    \/ FillSheet
    \/ CloneResolved
    \/ CloneRejected
    \/ Undo
    \/ Redo
    \/ LoadResolved
    \/ LoadRejected
    \/ TimerExpired

Spec == Init /\ [][Next]_vars

\* ------------------------------------------------------------------------
\* Sequential use of the history on a sheet with one object: the user adds
\* an object, drags it to the right step by step and uses undo and redo,
\* each time after the debounce timer has expired and the restore of the
\* previous undo/redo has settled.
\* ------------------------------------------------------------------------
InitHistory == InitProgram /\ linear = TRUE

Settled == timers = {} /\ loads = <<>>

AddFirstItem ==
    /\ Settled
    /\ getUserObjects(objs) = <<>>
    /\ \E sz \in ItemSizes : Step("add", addImageFromDialog(State, sz), 0)

DragItem ==
    /\ Settled
    /\ ops < MaxDrags
    /\ getUserObjects(objs) # <<>>
    /\ Step("modified", objectModified(State, getUserObjects(objs)[1].id, DragStep), 1)

UndoHistory ==
    /\ Settled
    /\ Step("undo", undo(State), 0)

RedoHistory ==
    /\ Settled
    /\ Step("redo", redo(State), 0)

NextHistory ==
    \/ AddFirstItem
    \/ DragItem
    \/ UndoHistory
    \/ RedoHistory
    \/ LoadResolved
    \/ TimerExpired

SpecHistory == InitHistory /\ [][NextHistory]_vars

\* ------------------------------------------------------------------------
\* The placement engine and the reflow as functions of the scene and of the
\* surface: the scene is any arrangement the user can have produced by
\* adding, dragging, scaling and rotating objects, the surface is the A5
\* sheet in either orientation or a surface too small for a safe area, and
\* the history has settled.
\* ------------------------------------------------------------------------
\* a safe area without interior (the test of lines 3418 and 3581)
IsDegenerate(safeRect) ==
    safeRect.right <= safeRect.left \/ safeRect.bottom <= safeRect.top

SafeRect == safeRectOf(surface[1], surface[2])

\* <<canvas.width / zoom, canvas.height / zoom>>: the sheet in landscape and
\* in portrait, a surface whose safe area is empty (right = left) and one
\* whose safe area is inverted (bottom < top)
Surfaces ==
    {<<virtualWidth(TRUE), virtualHeight(TRUE)>>,
     <<virtualWidth(FALSE), virtualHeight(FALSE)>>,
     <<2 * (BLEED_PIXELS + PLACEMENT_PADDING), A5_SHORT_SIDE_PX>>,
     <<A5_SHORT_SIDE_PX, 2 * BLEED_PIXELS>>}

\* scaled sizes of the objects of a scene: the size of ItemSizes and one that
\* is wider than the safe area of the portrait sheet
SceneSizes == ItemSizes \cup {<<1700, 700>>}

\* centres of the objects of a scene: the top-left slot of the safe area for
\* the size of ItemSizes, the midpoint of the landscape sheet and a point
\* near its right edge
ScenePoints ==
    {<<BLEED_PIXELS + PLACEMENT_PADDING + 350, BLEED_PIXELS + PLACEMENT_PADDING + 750>>,
     <<A5_LONG_SIDE_PX \div 2, A5_SHORT_SIDE_PX \div 2>>,
     <<A5_LONG_SIDE_PX - 200, A5_SHORT_SIDE_PX \div 2>>}

SceneObjects(id) ==
    {[id |-> id, name |-> "user", w |-> sz[1], h |-> sz[2], angle |-> a,
      left |-> pt[1], top |-> pt[2]] :
        sz \in SceneSizes, a \in {0, 90}, pt \in ScenePoints}

\* the scenes of n objects, bottom to top
RECURSIVE ScenesOf(_)
ScenesOf(n) ==
    IF n = 0 THEN {<<>>}
    ELSE {Append(scene, obj) : scene \in ScenesOf(n - 1), obj \in SceneObjects(n)}

Scenes == UNION {ScenesOf(n) : n \in 1..MaxSceneObjects}

\* the program with scene on the canvas of surface surf, every capture done,
\* and c the call under observation
InitSceneCall(scene, surf, c) ==
    /\ objs = scene \o BleedObjects
    /\ landscape = (surf[1] > surf[2])
    /\ surface = surf
    /\ undoStack = <<<<>>, Serialize(scene)>>
    /\ redoStack = <<>>
    /\ isRestoring = FALSE
    /\ saveStateTimeout = 1
    /\ timers = {}
    /\ loads = <<>>
    /\ fills = <<>>
    /\ ops = 0
    /\ last = "capture:pushed"
    /\ pre = NoPre
    /\ timerBy = "modified"
    /\ burst = 0
    /\ captured = <<>>
    /\ linear = FALSE
    /\ call = c

InitScene(scene, surf) == InitSceneCall(scene, surf, NoCall)

InitLayout == \E scene \in Scenes, surf \in Surfaces : InitScene(scene, surf)

\* arrangeObjectOnCanvas(obj) for a user object of the scene
ArrangeItem ==
    /\ ops < MaxCalls
    /\ \E id \in UserIds(objs) :
           \E res \in {Arrange(State, id)} :
               StepWith("arrange", res.st, 1,
                   [NoCall EXCEPT !.fn = "arrange", !.id = id,
                                  !.placed = res.placed,
                                  !.before = getUserObjects(objs),
                                  !.free = IF IsDegenerate(SafeRect) THEN <<>>
                                           ELSE computeFreeRects(objs, id, SafeRect)])

\* reflowObjectsIntoSafeArea()
ReflowItems ==
    /\ ops < MaxCalls
    /\ Step("reflow", reflowObjectsIntoSafeArea(State), 1)

NextLayout ==
    \/ ArrangeItem
    \/ ReflowItems

SpecLayout == InitLayout /\ [][NextLayout]_vars

\* ------------------------------------------------------------------------
\* The placement engine on scenes that leave several free rectangles for
\* the item: besides the sizes of SceneSizes the objects can have a size
\* that fits both beside and below an object in the top-left slot of the
\* portrait sheet.
\* ------------------------------------------------------------------------
OrderSizes == SceneSizes \cup {<<700, 700>>}

OrderObjects(id) ==
    {[id |-> id, name |-> "user", w |-> sz[1], h |-> sz[2], angle |-> a,
      left |-> pt[1], top |-> pt[2]] :
        sz \in OrderSizes, a \in {0, 90}, pt \in ScenePoints}

RECURSIVE OrderScenesOf(_)
OrderScenesOf(n) ==
    IF n = 0 THEN {<<>>}
    ELSE {Append(scene, obj) : scene \in OrderScenesOf(n - 1), obj \in OrderObjects(n)}

OrderScenes == UNION {OrderScenesOf(n) : n \in 1..MaxSceneObjects}

InitOrder ==
    \E scene \in OrderScenes, land \in BOOLEAN :
        InitScene(scene, <<virtualWidth(land), virtualHeight(land)>>)

SpecOrder == InitOrder /\ [][NextLayout]_vars

\* ------------------------------------------------------------------------
\* The free list of a placement among several blockers: unrotated objects
\* in the top-left slot, overlapping the object in that slot, and with the
\* gutter-expanded box one pixel short of the right edge of the safe area of
\* the landscape sheet.
\* ------------------------------------------------------------------------
FreeSizes == ItemSizes \cup {<<700, 700>>}

FreePoints ==
    {<<BLEED_PIXELS + PLACEMENT_PADDING + 350, BLEED_PIXELS + PLACEMENT_PADDING + 750>>,
     <<800, 900>>,
     <<A5_LONG_SIDE_PX - BLEED_PIXELS - PLACEMENT_PADDING - 1 - PLACEMENT_GUTTER - 350,
       A5_SHORT_SIDE_PX \div 2>>}

FreeObjects(id) ==
    {[id |-> id, name |-> "user", w |-> sz[1], h |-> sz[2], angle |-> 0,
      left |-> pt[1], top |-> pt[2]] :
        sz \in FreeSizes, pt \in FreePoints}

RECURSIVE FreeScenesOf(_)
FreeScenesOf(n) ==
    IF n = 0 THEN {<<>>}
    ELSE {Append(scene, obj) : scene \in FreeScenesOf(n - 1), obj \in FreeObjects(n)}

FreeScenes == UNION {FreeScenesOf(n) : n \in 1..MaxFreeObjects}

InitFree ==
    \E scene \in FreeScenes, land \in BOOLEAN :
        InitScene(scene, <<virtualWidth(land), virtualHeight(land)>>)

NextFree == ArrangeItem

SpecFree == InitFree /\ [][NextFree]_vars

\* ------------------------------------------------------------------------
\* subtractRect as a function of its two arguments, rectangles with interior
\* whose coordinates are on a grid of MaxCoord units
\* ------------------------------------------------------------------------
Coords == 0..MaxCoord

\* the rectangles with interior on the grid
GridRects ==
    {Rect(l, t, r, b) : l \in Coords, t \in Coords, r \in Coords, b \in Coords}

ProperRects == {rect \in GridRects : rect.left < rect.right /\ rect.top < rect.bottom}

InitSubtract ==
    \E freeRect \in ProperRects, blockerRect \in ProperRects :
        InitSceneCall(<<>>, <<virtualWidth(TRUE), virtualHeight(TRUE)>>,
            [NoCall EXCEPT !.fn = "arguments", !.freeRect = freeRect,
                           !.blockerRect = blockerRect])

\* subtractRect(freeRect, blockerRect)
SubtractRectCall ==
    /\ call.fn = "arguments"
    /\ StepWith("subtractRect", State, 1,
           [call EXCEPT !.fn = "subtractRect",
                        !.result = subtractRect(call.freeRect, call.blockerRect)])

NextSubtract == SubtractRectCall

SpecSubtract == InitSubtract /\ [][NextSubtract]_vars

\* ------------------------------------------------------------------------
\* pruneContainedRects as a function of its argument, a list of rectangles
\* with interior whose coordinates are on a grid of MaxPruneCoord units; a
\* rectangle can occur in the list more than once
\* ------------------------------------------------------------------------
PruneCoords == 0..MaxPruneCoord

PruneRects ==
    {rect \in {Rect(l, t, r, b) : l \in PruneCoords, t \in PruneCoords,
                                  r \in PruneCoords, b \in PruneCoords} :
        rect.left < rect.right /\ rect.top < rect.bottom}

RectLists == UNION {[1..n -> PruneRects] : n \in 0..MaxRects}

InitPrune ==
    \E rects \in RectLists :
        InitSceneCall(<<>>, <<virtualWidth(TRUE), virtualHeight(TRUE)>>,
            [NoCall EXCEPT !.fn = "arguments", !.free = rects])

\* pruneContainedRects(rects)
PruneCall ==
    /\ call.fn = "arguments"
    /\ StepWith("pruneContainedRects", State, 1,
           [call EXCEPT !.fn = "pruneContainedRects",
                        !.result = pruneContainedRects(call.free)])

NextPrune == PruneCall

SpecPrune == InitPrune /\ [][NextPrune]_vars

\* ------------------------------------------------------------------------
\* fillSheet on a scene of the A5 sheet in either orientation, with a
\* settled history and no other handler of the user in between; every
\* clone() request settles.
\* ------------------------------------------------------------------------
\* fillSheet arranges every object anew, so where the objects are at the
\* start does not matter: the scenes whose objects are all at the midpoint
\* of the landscape sheet
FillScenes ==
    {scene \in Scenes :
        \A i \in 1..Len(scene) :
            /\ scene[i].left = A5_LONG_SIDE_PX \div 2
            /\ scene[i].top = A5_SHORT_SIDE_PX \div 2}

InitFill ==
    \E scene \in FillScenes, land \in BOOLEAN :
        InitScene(scene, <<virtualWidth(land), virtualHeight(land)>>)

FillRun ==
    /\ ops < MaxRuns
    /\ Len(fills) < MaxFills
    /\ Step("fillSheet", fillSheet(State), 1)

NextFill ==
    \/ FillRun
    \/ CloneResolved
    \/ CloneRejected
    \/ TimerExpired

SpecFill == InitFill /\ [][NextFill]_vars

\* a pending clone() promise settles: it resolves or it rejects
SpecFillFair == SpecFill /\ WF_vars(CloneResolved \/ CloneRejected)

\* ------------------------------------------------------------------------
\* Properties
\* ------------------------------------------------------------------------
BulkOps == {"clearCanvas", "deleteSelected", "scaleCanvas"}

\* the last n elements of a sequence
LastN(s, n) == IF Len(s) <= n THEN s ELSE SubSeq(s, Len(s) - n + 1, Len(s))

\* C1: a fillSheet run is a single undo step: a snapshot that a capture armed
\* by the run's own clone placements appends while the run is still in
\* progress is the scene after the fill has finished, i.e. the rest of the
\* run does not change the scene any more
C1_FillSingleUndoStep ==
    [][(/\ fills # <<>>
        /\ last = "capture:pushed"
        /\ timerBy = "clone"
        /\ last' \in {"clone", "cloneFail"})
       => Serialize(objs') = Top(undoStack)]_vars

\* C2: a synchronous bulk operation captures nothing while it runs and arms
\* at most one timer; the capture that follows it appends at most one entry,
\* the scene after the whole operation
C2_BulkOneEntry ==
    [][/\ last' \in BulkOps
          => /\ undoStack' = undoStack
             /\ redoStack' = redoStack
             /\ Cardinality(timers') <= 1
       /\ (last \in BulkOps /\ last' = "capture:pushed")
          => /\ undoStack' = Append(undoStack, Serialize(objs))
             /\ objs' = objs]_vars

C2_Witness ==
    /\ last = "capture:pushed"
    /\ timerBy = "deleteSelected"
    /\ Len(undoStack) >= 2
    /\ Len(undoStack[Len(undoStack) - 1]) >= Len(Top(undoStack)) + 2
    /\ Top(undoStack) = Serialize(objs)

\* C3: with undo stack [S0, S1] and nothing pending, undo() leaves [S0] / [S1]
\* and its restore makes the scene serialise to S0; redo() then leaves
\* [S0, S1] / [] and its restore makes the scene serialise to S1; redo() with
\* an empty redo stack changes nothing
C3_UndoRedoRoundTrip ==
    [][/\ (/\ last' = "undo" /\ Len(undoStack) = 2 /\ redoStack = <<>>
           /\ timers = {} /\ loads = <<>> /\ fills = <<>>)
          => /\ undoStack' = <<undoStack[1]>>
             /\ redoStack' = <<undoStack[2]>>
             /\ loads' = <<undoStack[1]>>
             /\ objs' = objs
       /\ (/\ last = "undo" /\ last' = "restored" /\ Len(pre.u) = 2 /\ pre.r = <<>>
           /\ timers = {} /\ Len(loads) = 1 /\ fills = <<>>)
          => /\ Serialize(objs') = pre.u[1]
             /\ undoStack' = <<pre.u[1]>>
             /\ redoStack' = <<pre.u[2]>>
             /\ ~isRestoring'
       /\ (/\ last' = "redo" /\ Len(undoStack) = 1 /\ Len(redoStack) = 1
           /\ timers = {} /\ loads = <<>> /\ fills = <<>>)
          => /\ undoStack' = <<undoStack[1], redoStack[1]>>
             /\ redoStack' = <<>>
             /\ loads' = <<redoStack[1]>>
             /\ objs' = objs
       /\ (/\ last = "redo" /\ last' = "restored" /\ Len(pre.u) = 1 /\ Len(pre.r) = 1
           /\ timers = {} /\ Len(loads) = 1 /\ fills = <<>>)
          => /\ Serialize(objs') = pre.r[1]
             /\ undoStack' = <<pre.u[1], pre.r[1]>>
             /\ redoStack' = <<>>
             /\ ~isRestoring'
       /\ (last' = "redo" /\ redoStack = <<>>) => UNCHANGED prog]_vars

C3_Witness ==
    /\ last = "restored"
    /\ pre.op = "redo"
    /\ Len(pre.u) = 1
    /\ Len(pre.r) = 1
    /\ pre.scene = pre.u[1]
    /\ undoStack = <<pre.u[1], pre.r[1]>>
    /\ redoStack = <<>>
    /\ Serialize(objs) = pre.r[1]
    /\ pre.r[1] # pre.u[1]

\* C4: after k consecutive distinct captures the undo stack is the last
\* MAX_HISTORY of them, in capture order
C4_FifoEviction ==
    linear => undoStack = LastN(captured, MAX_HISTORY)

C4_Witness ==
    /\ linear
    /\ last = "capture:pushed"
    /\ Len(captured) = MAX_HISTORY + 5
    /\ Len(undoStack) = MAX_HISTORY
    /\ undoStack[1] = captured[6]
    /\ \A i, j \in 1..Len(captured) : i # j => captured[i] # captured[j]

\* C5: a non-empty undo stack never becomes empty, and undo() with one entry
\* on the undo stack changes neither stack, nor the scene, nor isRestoring
C5_UndoStackNeverEmpty ==
    [][/\ undoStack # <<>> => undoStack' # <<>>
       /\ (last' = "undo" /\ Len(undoStack) = 1)
          => UNCHANGED <<undoStack, redoStack, objs, isRestoring, loads>>]_vars

C5_Witness ==
    /\ last = "undo"
    /\ Len(pre.u) = 1
    /\ undoStack = pre.u
    /\ redoStack # <<>>
    /\ Len(redoStack) = MAX_HISTORY - 1

\* C6: a capture that pushes a new snapshot leaves the redo stack empty
C6_PushClearsRedo ==
    [][last' = "capture:pushed"
       => /\ redoStack' = <<>>
          /\ Top(undoStack') = Serialize(objs)]_vars

C6_Witness ==
    /\ last = "capture:pushed"
    /\ pre.r # <<>>
    /\ redoStack = <<>>

\* C7: a capture whose serialisation equals the top of the undo stack changes
\* neither the undo stack nor the redo stack
C7_SameCaptureNoOp ==
    [][last' = "capture:same"
       => /\ undoStack' = undoStack
          /\ redoStack' = redoStack]_vars

C7_Witness ==
    /\ last = "capture:same"
    /\ redoStack # <<>>
    /\ Top(undoStack) = Serialize(objs)

\* C8: a restore never triggers a capture: no timer armed by the
\* notifications of a restore pushes a snapshot when it expires
C8_RestoreNeverCaptures ==
    ~(last = "capture:pushed" /\ timerBy = "restored")

\* C9: when the deserialisation of a restore fails and nothing else is in
\* flight, isRestoring is false again
C9_GuardReleasedOnFailure ==
    (last = "restoreFail" /\ loads = <<>> /\ fills = <<>>) => ~isRestoring

\* C10: when the deserialisation started by an undo() or redo() fails, the
\* scene and both stacks are what they were before that call
C10_FailedRestoreIntact ==
    (last = "restoreFail" /\ pre.op \in {"undo", "redo"} /\ loads = <<>>)
    => /\ undoStack = pre.u
       /\ redoStack = pre.r
       /\ Serialize(objs) = pre.scene

\* C11: the debounce has one timer slot and the last request wins: at most
\* one capture timer is pending; after a burst of requests (burst counts
\* them since the last expiry) exactly one timer is pending, the one armed by
\* the last request; the expiry of that timer is the one capture attempt of
\* the burst, it leaves no timer pending, and what it pushes is the
\* serialisation of the scene at the expiry
C11_DebounceLastWriteWins ==
    [][/\ Cardinality(timers') <= 1
       /\ timers' \subseteq {saveStateTimeout'}
       /\ burst' > burst => timers' = {saveStateTimeout'}
       /\ (last' \in {"add", "scaleCanvas"} /\ ~isRestoring)
          => /\ burst' > burst
             /\ timerBy' = last'
       /\ last' \in CaptureKinds
          => /\ timers' = {}
             /\ objs' = objs
             /\ burst' = 0
             /\ last' = "capture:pushed" => Top(undoStack') = Serialize(objs')
             /\ last' # "capture:pushed" => undoStack' = undoStack]_vars

\* the notifications of adding an object and of an orientation change (five
\* bleed objects removed, five added) have led to one capture
C11_Witness ==
    /\ last = "capture:pushed"
    /\ timerBy = "scaleCanvas"
    /\ pre.burst > 10
    /\ timers = {}
    /\ getUserObjects(objs) # <<>>
    /\ Top(undoStack) = Serialize(objs)
    /\ Len(undoStack) = 1

\* ------------------------------------------------------------------------
\* Placement and reflow
\* ------------------------------------------------------------------------
\* the bounding box of an object as a rectangle
BoundsRect(obj) ==
    LET bounds == getBoundingRect(obj)
    IN  Rect(bounds.left, bounds.top,
             bounds.left + bounds.width, bounds.top + bounds.height)

Inside(rect, outer) ==
    /\ outer.left <= rect.left
    /\ outer.top <= rect.top
    /\ rect.right <= outer.right
    /\ rect.bottom <= outer.bottom

Intersects(a, b) ==
    /\ a.left < b.right
    /\ b.left < a.right
    /\ a.top < b.bottom
    /\ b.top < a.bottom

Users == getUserObjects(objs)

\* the object of the observed call of arrangeObjectOnCanvas, after and before
Arranged == ObjById(objs, call.id)
ArrangedBefore == ObjById(call.before, call.id)

\* the other objects are where they were, and the arranged one is still there
OthersUntouched ==
    /\ Len(Users) = Len(call.before)
    /\ \A i \in 1..Len(Users) :
           IF Users[i].id = call.id
           THEN [Users[i] EXCEPT !.left = ArrangedBefore.left,
                                 !.top = ArrangedBefore.top] = call.before[i]
           ELSE Users[i] = call.before[i]

\* no rectangle of the free list is as wide and as high as the item
NoFit ==
    \A i \in 1..Len(call.free) :
        ~(/\ call.free[i].right - call.free[i].left >= ArrangedBefore.w
          /\ call.free[i].bottom - call.free[i].top >= ArrangedBefore.h)

\* C12: when arrangeObjectOnCanvas has returned true, the bounding box of the
\* item lies inside the safe area and does not intersect the gutter-expanded
\* bounding box of any other user object of the scene
C12_PlacedInsideAndClear ==
    (call.fn = "arrange" /\ call.placed)
    => /\ Inside(BoundsRect(Arranged), SafeRect)
       /\ \A i \in 1..Len(Users) :
              Users[i].id # call.id
              => ~Intersects(BoundsRect(Arranged), blockerOf(Users[i]))

\* C13: every rectangle of the free list of a placement is a subset of the
\* safe area, and no rectangle of the list is contained in another one
C13_FreeRectsInsideAndPruned ==
    call.fn = "arrange"
    => /\ \A i \in 1..Len(call.free) : Inside(call.free[i], SafeRect)
       /\ \A i, j \in 1..Len(call.free) :
              i # j => ~Inside(call.free[i], call.free[j])

\* a free list of three or more rectangles around a blocker that reaches out
\* of the safe area and was clamped to it
C13_Witness ==
    /\ call.fn = "arrange"
    /\ Len(call.free) >= 3
    /\ \E i \in 1..Len(call.before) :
           /\ call.before[i].id # call.id
           /\ OutOfBounds(call.before[i], SafeRect)
           /\ clampRect(blockerOf(call.before[i]), SafeRect) # <<>>

\* C14: after a reflow every user object lies inside the safe area, so a
\* second reflow right after the first changes nothing
C14_ReflowIdempotent ==
    [][(last' = "reflow" /\ ~IsDegenerate(SafeRect))
       => /\ \A i \in 1..Len(getUserObjects(objs')) :
                 ~OutOfBounds(getUserObjects(objs')[i], SafeRect)
          /\ last = "reflow" => UNCHANGED prog]_vars

\* C19: on a surface whose safe area is empty or inverted,
\* arrangeObjectOnCanvas puts the item at the midpoint of the surface and
\* returns false, leaving the other objects alone, and
\* reflowObjectsIntoSafeArea changes nothing
C19_DegenerateSafeArea ==
    [][IsDegenerate(SafeRect)
       => /\ last' = "arrange"
             => /\ ~call'.placed
                /\ ObjById(objs', call'.id).left = surface[1] \div 2
                /\ ObjById(objs', call'.id).top = surface[2] \div 2
                /\ Len(objs') = Len(objs)
                /\ \A i \in 1..Len(objs) :
                       objs[i].id # call'.id => objs'[i] = objs[i]
          /\ last' = "reflow" => UNCHANGED prog]_vars

\* a reflow on a degenerate surface has left an object at the midpoint, where
\* arrangeObjectOnCanvas had put it, although it is out of bounds
C19_Witness ==
    /\ last = "reflow"
    /\ IsDegenerate(SafeRect)
    /\ \E i \in 1..Len(Users) :
           /\ Users[i].left = surface[1] \div 2
           /\ Users[i].top = surface[2] \div 2
           /\ OutOfBounds(Users[i], SafeRect)

\* C20: when no free rectangle is as wide and as high as the item,
\* arrangeObjectOnCanvas returns false with the item at the centroid of the
\* safe area; the item is still in the scene and no other object has moved
C20_FallbackCentred ==
    (call.fn = "arrange" /\ ~IsDegenerate(SafeRect) /\ NoFit)
    => /\ ~call.placed
       /\ Arranged.left = (SafeRect.left + SafeRect.right) \div 2
       /\ Arranged.top = (SafeRect.top + SafeRect.bottom) \div 2
       /\ OthersUntouched

\* an item that would fit the empty safe area found no slot between the
\* other objects and was moved to the centroid
C20_Witness ==
    /\ call.fn = "arrange"
    /\ ~IsDegenerate(SafeRect)
    /\ NoFit
    /\ ~call.placed
    /\ Len(call.before) >= 2
    /\ ArrangedBefore.w <= SafeRect.right - SafeRect.left
    /\ ArrangedBefore.h <= SafeRect.bottom - SafeRect.top
    /\ Arranged.left = (SafeRect.left + SafeRect.right) \div 2
    /\ Arranged # ArrangedBefore

\* ------------------------------------------------------------------------
\* fillSheet
\* ------------------------------------------------------------------------
RECURSIVE SumAreas(_)
SumAreas(rects) ==
    IF rects = <<>> THEN 0
    ELSE (Head(rects).right - Head(rects).left) * (Head(rects).bottom - Head(rects).top)
         + SumAreas(Tail(rects))

\* the unoccupied area of the safe area of surface surf: the area of the free
\* rectangles around the gutter-expanded boxes of all user objects of os
FreeArea(os, surf) ==
    SumAreas(computeFreeRects(os, 0, safeRectOf(surf[1], surf[2])))

\* C15: if every clone() request settles, a fillSheet run that is suspended
\* at an await reaches its finally block; every clone a round keeps (the
\* condition for another round) strictly shrinks the unoccupied area
C15_FillTerminates ==
    /\ (fills # <<>>) ~> (fills = <<>>)
    /\ [][(last' = "clone" /\ Len(getUserObjects(objs')) > Len(Users))
          => FreeArea(objs', surface') < FreeArea(objs, surface)]_vars

\* a run has placed clones and has ended with a clone that found no slot
C15_Witness ==
    /\ call.fn = "fillSheet"
    /\ last = "clone"
    /\ fills = <<>>
    /\ ~isRestoring
    /\ Len(Users) >= Len(call.before) + 2

\* C16: during and after a fillSheet run without an interleaved handler,
\* every object that was in the scene at its start is still in the scene and
\* every original whose initial placement succeeded is exactly where that
\* placement put it
C16_OriginalsKept ==
    call.fn = "fillSheet"
    => /\ \A i \in 1..Len(call.before) : call.before[i].id \in UserIds(objs)
       /\ \A j \in 1..Len(call.originals) :
              /\ call.originals[j].id \in UserIds(objs)
              /\ ObjById(objs, call.originals[j].id) = call.originals[j]

\* a completed run that placed one original, failed to place the other and
\* placed a clone
C16_Witness ==
    /\ call.fn = "fillSheet"
    /\ fills = <<>>
    /\ last = "clone"
    /\ Len(call.originals) >= 1
    /\ Len(call.before) > Len(call.originals)
    /\ Len(Users) > Len(call.before)

\* C17: the continuation of a resolved clone() leaves the scene either as it
\* was (the clone found no slot and was discarded in the same continuation)
\* or with the clone on top of the unchanged other objects, at the top-left
\* corner of a free rectangle that fits it (its placement returned true)
C17_DiscardAtomic ==
    [][last' = "clone"
       => \/ getUserObjects(objs') = Users
          \/ /\ Len(getUserObjects(objs')) = Len(Users) + 1
             /\ SubSeq(getUserObjects(objs'), 1, Len(Users)) = Users
             /\ \E clone \in {Top(getUserObjects(objs'))} :
                    \E rect \in Range(computeFreeRects(objs', clone.id,
                                           safeRectOf(surface'[1], surface'[2]))) :
                        /\ rect.right - rect.left >= clone.w
                        /\ rect.bottom - rect.top >= clone.h
                        /\ clone.left = rect.left + clone.w \div 2
                        /\ clone.top = rect.top + clone.h \div 2]_vars

\* a run on a sheet changed by an interleaved handler has ended with a
\* clone that was discarded
C17_Witness ==
    /\ last = "clone"
    /\ call.fn = "none"
    /\ fills = <<>>
    /\ Users # <<>>
    /\ pre = NoPre
    /\ timers # {}

\* C18: the continuation of a rejected clone() adds nothing to the scene;
\* when originals of the round remain, the run goes on with the next one;
\* when the run returns, isRestoring is false and a capture has been
\* requested: exactly one timer is pending
C18_CloneFailureLocal ==
    [][last' = "cloneFail"
       => /\ getUserObjects(objs') = Users
          /\ \E f \in 1..Len(fills) :
                 \/ /\ fills[f].idx < Len(fills[f].placedOriginals)
                    /\ fills' = [fills EXCEPT ![f].idx = fills[f].idx + 1]
                 \/ /\ fills[f].idx = Len(fills[f].placedOriginals)
                    /\ fills[f].clonesPlacedInPass > 0
                    /\ fills' = [fills EXCEPT ![f].idx = 1,
                                              ![f].clonesPlacedInPass = 0]
                 \/ /\ fills[f].idx = Len(fills[f].placedOriginals)
                    /\ fills[f].clonesPlacedInPass = 0
                    /\ Len(fills') = Len(fills) - 1
                    /\ ~isRestoring'
                    /\ burst' > burst
                    /\ timers' = {saveStateTimeout'}]_vars

\* the clone of the first of two originals was rejected and the run waits
\* for the clone of the second
C18_Witness ==
    /\ last = "cloneFail"
    /\ Len(fills) = 1
    /\ Len(fills[1].placedOriginals) = 2
    /\ fills[1].idx = 2
    /\ fills[1].clonesPlacedInPass = 0
    /\ isRestoring

\* ------------------------------------------------------------------------
\* subtractRect
\* ------------------------------------------------------------------------
\* the unit cell with top-left corner <<x, y>> lies in rect
CellIn(x, y, rect) ==
    /\ rect.left <= x /\ x + 1 <= rect.right
    /\ rect.top <= y /\ y + 1 <= rect.bottom

\* the remainder of freeRect around blockerRect that holds the cell <<x, y>>
\* of freeRect outside blockerRect: the part above the blocker, the part
\* below it, or the part to its left or right between the two
RemainderOf(freeRect, blockerRect, x, y) ==
    IF y < blockerRect.top
    THEN Rect(freeRect.left, freeRect.top, freeRect.right, blockerRect.top)
    ELSE IF y >= blockerRect.bottom
    THEN Rect(freeRect.left, blockerRect.bottom, freeRect.right, freeRect.bottom)
    ELSE IF x < blockerRect.left
    THEN Rect(freeRect.left, Max2(freeRect.top, blockerRect.top),
              blockerRect.left, Min2(freeRect.bottom, blockerRect.bottom))
    ELSE Rect(blockerRect.right, Max2(freeRect.top, blockerRect.top),
              freeRect.right, Min2(freeRect.bottom, blockerRect.bottom))

\* C21: subtractRect(free, blocker) is [free] when the two have no
\* intersection of positive area; otherwise it has at most 4 rectangles, each
\* inside free and disjoint from blocker, pairwise disjoint, and a cell of
\* free outside blocker is covered by them unless the remainder strip it lies
\* in is at most 1 unit wide or high, in which case it is not covered
C21_SubtractRect ==
    call.fn = "subtractRect"
    => IF ~Intersects(call.freeRect, call.blockerRect)
       THEN call.result = <<call.freeRect>>
       ELSE /\ Len(call.result) <= 4
            /\ \A i \in 1..Len(call.result) :
                   /\ Inside(call.result[i], call.freeRect)
                   /\ ~Intersects(call.result[i], call.blockerRect)
                   /\ \A j \in 1..Len(call.result) :
                          i # j => ~Intersects(call.result[i], call.result[j])
            /\ \A x \in Coords, y \in Coords :
                   (CellIn(x, y, call.freeRect) /\ ~CellIn(x, y, call.blockerRect))
                   => ((\E i \in 1..Len(call.result) : CellIn(x, y, call.result[i]))
                       <=> \E strip \in {RemainderOf(call.freeRect,
                                              call.blockerRect, x, y)} :
                               /\ strip.right - strip.left > 1
                               /\ strip.bottom - strip.top > 1)

\* a blocker inside the free rectangle, one unit from its left edge: the
\* remainders above, below and to the right are kept, the left one is dropped
C21_Witness ==
    /\ call.fn = "subtractRect"
    /\ Intersects(call.freeRect, call.blockerRect)
    /\ Inside(call.blockerRect, call.freeRect)
    /\ call.blockerRect.left - call.freeRect.left = 1
    /\ Len(call.result) = 3
    /\ \E y \in Coords :
           /\ CellIn(call.freeRect.left, y, call.freeRect)
           /\ ~CellIn(call.freeRect.left, y, call.blockerRect)
           /\ \A i \in 1..Len(call.result) :
                  ~CellIn(call.freeRect.left, y, call.result[i])

\* ------------------------------------------------------------------------
\* Restores
\* ------------------------------------------------------------------------
\* C22: at most one restore is in progress at any time: an undo() or redo()
\* issued before the deserialisation of the previous restore has settled does
\* not start a second one
C22_RestoresExclusive ==
    Len(loads) <= 1

\* ------------------------------------------------------------------------
\* Reflow
\* ------------------------------------------------------------------------
\* every user object of the scene has its bounding box inside the safe area
AllInBounds == \A i \in 1..Len(Users) : ~OutOfBounds(Users[i], SafeRect)

\* C23: when every user object's bounding box is inside the safe area,
\* reflowObjectsIntoSafeArea changes nothing: not the objects, their positions
\* or their order, not isRestoring, not the debounce timer, not the stacks
C23_ReflowNoOp ==
    [][(last' = "reflow" /\ AllInBounds) => UNCHANGED prog]_vars

\* a reflow of a scene of two objects inside the safe area, while the timer
\* armed by an earlier reflow is pending
C23_Witness ==
    /\ last = "reflow"
    /\ call.before = Users
    /\ Len(Users) = 2
    /\ AllInBounds
    /\ timers # {}

\* the user objects a reflow has found inside the safe area and left alone
InBoundsBefore ==
    SelectSeq(call.before, LAMBDA obj : ~OutOfBounds(obj, SafeRect))

\* C24: after a reflow, the bounding box of an object the reflow has placed
\* successfully intersects neither the gutter-expanded box of an object that
\* was in bounds nor that of another object the same reflow has placed
\* successfully
C24_ReflowedClear ==
    call.fn = "reflow"
    => \A i \in 1..Len(call.originals) :
           /\ \A j \in 1..Len(InBoundsBefore) :
                  ~Intersects(BoundsRect(call.originals[i]), blockerOf(InBoundsBefore[j]))
           /\ \A j \in 1..Len(call.originals) :
                  i # j => ~Intersects(BoundsRect(call.originals[i]),
                                       blockerOf(call.originals[j]))

\* ------------------------------------------------------------------------
\* Placement order
\* ------------------------------------------------------------------------
\* rect is as wide and as high as the item of the observed call
Fits(rect) ==
    /\ rect.right - rect.left >= ArrangedBefore.w
    /\ rect.bottom - rect.top >= ArrangedBefore.h

\* a comes before b in reading order, or is b
ReadsBefore(a, b) ==
    \/ a.top < b.top
    \/ a.top = b.top /\ a.left <= b.left

WouldPlace(os, surf, base) ==
    \E id \in {FreshIds(UserIds(os), 1, 1)[1]} :
        arrangeObjectOnCanvas(Append(os, [base EXCEPT !.id = id]), id,
                              surf[1], surf[2]).placed

\* the step ends the suspended run f: it leaves the do-while loop and goes
\* through the finally block
RunEnds(f) ==
    /\ last' \in {"clone", "cloneFail"}
    /\ fills' = SubSeq(fills, 1, f - 1) \o SubSeq(fills, f + 1, Len(fills))

\* C26: a fillSheet run returns only at the end of a round in which no clone
\* was placed, and then one more clone of any placed original would find no
\* slot in the final scene; at the end of a round that placed a clone the run
\* starts another round
C26_StopsAtFixedPoint ==
    [][\A f \in 1..Len(fills) :
           /\ RunEnds(f)
              => /\ fills[f].idx = Len(fills[f].placedOriginals)
                 /\ fills[f].clonesPlacedInPass = 0
                 /\ getUserObjects(objs') = Users
                 /\ \A j \in 1..Len(fills[f].placedOriginals) :
                        ~WouldPlace(objs', surface', fills[f].placedOriginals[j])
           /\ (/\ last' \in {"clone", "cloneFail"}
               /\ fills[f].idx = Len(fills[f].placedOriginals)
               /\ \/ fills[f].clonesPlacedInPass > 0
                  \/ Len(getUserObjects(objs')) > Len(Users))
              => /\ Len(fills') = Len(fills)
                 /\ fills'[f].idx = 1]_vars

\* C27: when the initial arrangement of fillSheet places no original, the
\* call requests no clone (no run is suspended at an await), the scene
\* afterwards holds exactly the objects it held before, the failure is
\* reported, isRestoring is false and a capture has been requested
C27_NothingPlaced ==
    [][(last' = "fillSheet" /\ Users # <<>> /\ FillPlaced(State) = <<>>)
       => /\ fills' = fills
          /\ Len(getUserObjects(objs')) = Len(Users)
          /\ UserIds(objs') = UserIds(objs)
          /\ \A i \in 1..Len(Users) :
                 ObjById(objs', Users[i].id) =
                     [Users[i] EXCEPT !.left = ObjById(objs', Users[i].id).left,
                                      !.top = ObjById(objs', Users[i].id).top]
          /\ call'.alert = "No objects could be arranged within the safe area."
          /\ ~isRestoring'
          /\ burst' > burst
          /\ timers' = {saveStateTimeout'}]_vars

\* fillSheet on the portrait sheet with two objects that are wider than its
\* safe area: both are left at the centroid, none was cloned
C27_Witness ==
    /\ last = "fillSheet"
    /\ call.alert = "No objects could be arranged within the safe area."
    /\ Len(call.before) = 2
    /\ Len(Users) = 2
    /\ fills = <<>>
    /\ ~isRestoring
    /\ timers # {}
    /\ \A i \in 1..Len(Users) :
           /\ Users[i].left = (SafeRect.left + SafeRect.right) \div 2
           /\ Users[i].w > SafeRect.right - SafeRect.left

\* ------------------------------------------------------------------------
\* History and pending work
\* ------------------------------------------------------------------------
\* C28: when undo() pops the undo stack, the snapshot it pops is the
\* serialisation of the scene on the canvas, also while a change is waiting
\* for the debounce timer
C28_UndoPopsLiveScene ==
    [][(last' = "undo" /\ undoStack' # undoStack)
       => Top(undoStack) = Serialize(objs)]_vars

\* C29: isRestoring is true from the start of a restore until its
\* deserialisation has settled, whatever handlers run in between
C29_GuardHeldDuringRestore ==
    loads # <<>> => isRestoring

\* nothing is pending in the event loop: no timer, no deserialisation, no
\* suspended fillSheet run
Idle == timers = {} /\ loads = <<>> /\ fills = <<>>

\* C30: once every clone and deserialisation has settled and every timer has
\* expired, isRestoring is false and the top of the undo stack is the
\* serialisation of the scene
C30_Quiescence ==
    Idle => /\ ~isRestoring
            /\ undoStack # <<>>
            /\ Top(undoStack) = Serialize(objs)

\* ------------------------------------------------------------------------
\* Stacking order
\* ------------------------------------------------------------------------
\* every bleed object is above every user object
BleedOnTop ==
    \A i, j \in 1..Len(objs) :
        (isBleedObject(objs[i]) /\ ~isBleedObject(objs[j])) => i > j

\* C31: when a handler that adds objects has run to completion (an added
\* image, fillSheet through its finally block, a reflow, a restore), every
\* bleed object is above every user object in the stacking order
C31_BleedOnTop ==
    (/\ last \in {"add", "fillSheet", "clone", "cloneFail", "reflow",
                  "scaleCanvas", "restored"}
     /\ fills = <<>>)
    => BleedOnTop

\* C32: a handler that runs while isRestoring is true and leaves it true
\* (its change notifications reach saveState with the guard set) neither arms
\* nor cancels a capture timer; a timer that expires while isRestoring is
\* true pushes nothing, leaves both stacks as they were and arms no timer
C32_GuardedCapture ==
    [][/\ (isRestoring /\ isRestoring' /\ last' \notin CaptureKinds)
          => (timers' = timers /\ saveStateTimeout' = saveStateTimeout)
       /\ last' = "capture:blocked"
          => /\ undoStack' = undoStack
             /\ redoStack' = redoStack
             /\ timers' \subseteq timers /\ timers' # timers
             /\ saveStateTimeout' = saveStateTimeout]_vars

\* an image was added while a restore or a fill run held the guard, with a
\* capture timer pending
C32_Witness ==
    last = "add" /\ isRestoring /\ saveStateTimeout \in timers

\* the user objects a reflow has found out of bounds and could not place
\* (on a degenerate safe area the reflow returns before it looks for any)
FailedRepositions ==
    SelectSeq(call.before,
              LAMBDA obj : /\ ~IsDegenerate(SafeRect)
                           /\ OutOfBounds(obj, SafeRect)
                           /\ \A i \in 1..Len(call.originals) :
                                  call.originals[i].id # obj.id)

\* C33: a reflow leaves every object that was in bounds in the scene, at the
\* position it had (also when it re-arranges others), and every out-of-bounds
\* object it could not place stays in the scene, centred on the safe area
C33_ReflowFrame ==
    call.fn = "reflow"
    => /\ \A i \in 1..Len(InBoundsBefore) : InBoundsBefore[i] \in Range(objs)
       /\ \A i \in 1..Len(FailedRepositions) :
              [FailedRepositions[i] EXCEPT
                   !.left = (SafeRect.left + SafeRect.right) \div 2,
                   !.top = (SafeRect.top + SafeRect.bottom) \div 2] \in Range(objs)
       /\ Len(Users) = Len(call.before)

\* a reflow of a scene with an object in bounds and an out-of-bounds object
\* that found no slot
C33_Witness ==
    /\ call.fn = "reflow"
    /\ Len(InBoundsBefore) = 1
    /\ Len(FailedRepositions) = 1
    /\ ~IsDegenerate(SafeRect)

\* ------------------------------------------------------------------------
\* Size of the history
\* ------------------------------------------------------------------------
\* C34: the undo stack and the redo stack together never hold more than
\* MAX_HISTORY snapshots, so the undo stack never exceeds MAX_HISTORY
\* although redo() pushes on it without a test of its length
C34_HistoryBounded ==
    /\ Len(undoStack) + Len(redoStack) <= MAX_HISTORY
    /\ Len(undoStack) <= MAX_HISTORY

\* a redo has pushed the MAX_HISTORY-th entry on the undo stack after the
\* oldest entry was evicted
C34_Witness ==
    /\ last = "redo"
    /\ Len(undoStack) = MAX_HISTORY
    /\ undoStack[1] # <<>>

\* C35: no two adjacent snapshots of the history are equal: consecutive
\* entries of the undo stack differ, consecutive entries of the redo stack
\* differ, and the top of the undo stack differs from the top of the redo
\* stack
C35_NoAdjacentDuplicates ==
    /\ \A i \in 1..(Len(undoStack) - 1) : undoStack[i] # undoStack[i + 1]
    /\ \A i \in 1..(Len(redoStack) - 1) : redoStack[i] # redoStack[i + 1]
    /\ (undoStack # <<>> /\ redoStack # <<>>) => Top(undoStack) # Top(redoStack)

\* both stacks hold several entries after undos and a redo
C35_Witness ==
    /\ last = "redo"
    /\ Len(undoStack) >= 3
    /\ Len(redoStack) >= 2

\* ------------------------------------------------------------------------
\* Completeness of the placement
\* ------------------------------------------------------------------------
\* the other user objects of the observed call of arrangeObjectOnCanvas
Blockers == SelectSeq(call.before, LAMBDA obj : obj.id # call.id)

\* the box of the item's scaled width and height with its top-left corner at
\* <<l, t>> lies inside the safe area and clear of every other object's
\* gutter-expanded box
SlotAt(l, t) ==
    LET box == Rect(l, t, l + ArrangedBefore.w, t + ArrangedBefore.h)
    IN  /\ Inside(box, SafeRect)
        /\ \A i \in 1..Len(Blockers) : ~Intersects(box, blockerOf(Blockers[i]))

\* there is such a position: if there is one, there is one whose left edge
\* is the left edge of the safe area or the right edge of a blocker, and
\* whose top edge is the top edge of the safe area or the bottom edge of a
\* blocker (slide the box to the left and up until it touches)
SlotExists ==
    \E l \in {SafeRect.left} \cup {blockerOf(Blockers[i]).right : i \in 1..Len(Blockers)},
       t \in {SafeRect.top} \cup {blockerOf(Blockers[i]).bottom : i \in 1..Len(Blockers)} :
        SlotAt(l, t)

\* C36: arrangeObjectOnCanvas returns false only if no position inside the
\* safe area keeps the item's box clear of the gutter-expanded box of every
\* other object
C36_PlacementComplete ==
    (call.fn = "arrange" /\ ~call.placed /\ ~IsDegenerate(SafeRect)) => ~SlotExists

\* ------------------------------------------------------------------------
\* The free list as a partition of the unoccupied space
\* ------------------------------------------------------------------------
\* the gutter-expanded boxes of the other objects, clamped to the safe area
ClampedBlockers ==
    UNION {Range(clampRect(blockerOf(Blockers[i]), SafeRect)) : i \in 1..Len(Blockers)}

\* the free list of the observed call before pruning and sorting
UnprunedFree == SubtractBlockers(<<SafeRect>>, Blockers, SafeRect)

\* the intervals between neighbouring values of a set of coordinates
Intervals(cs) ==
    {<<a, b>> \in cs \X cs : a < b /\ ~\E c \in cs : a < c /\ c < b}

\* the cells of the grid drawn by the edges of the safe area and of the
\* clamped blockers
Cells ==
    LET xs == {SafeRect.left, SafeRect.right}
              \cup {b.left : b \in ClampedBlockers} \cup {b.right : b \in ClampedBlockers}
        ys == {SafeRect.top, SafeRect.bottom}
              \cup {b.top : b \in ClampedBlockers} \cup {b.bottom : b \in ClampedBlockers}
    IN  {Rect(x[1], y[1], x[2], y[2]) : x \in Intervals(xs), y \in Intervals(ys)}

\* C37: the free rectangles of a placement are pairwise disjoint, none
\* intersects a clamped gutter-expanded blocker, and together they cover the
\* safe area outside the clamped blockers except for strips of width or height
\* at most 1; pruning removes none of them
C37_FreeListPartition ==
    (call.fn = "arrange" /\ ~IsDegenerate(SafeRect))
    => /\ \A i, j \in 1..Len(call.free) :
              i # j => ~Intersects(call.free[i], call.free[j])
       /\ \A i \in 1..Len(call.free) :
              \A b \in ClampedBlockers : ~Intersects(call.free[i], b)
       /\ \A cell \in Cells :
              \/ \E b \in ClampedBlockers : Inside(cell, b)
              \/ \E i \in 1..Len(call.free) : Inside(cell, call.free[i])
              \/ cell.right - cell.left <= 1
              \/ cell.bottom - cell.top <= 1
       /\ pruneContainedRects(UnprunedFree) = UnprunedFree
       /\ call.free = SortTopLeft(UnprunedFree)

\* a placement among two blockers one of which leaves a strip one pixel wide
\* at the right edge of the safe area, which is in no free rectangle
C37_Witness ==
    /\ call.fn = "arrange"
    /\ Cardinality(ClampedBlockers) = 2
    /\ Len(call.free) >= 4
    /\ \E cell \in Cells :
           /\ cell.right - cell.left <= 1
           /\ \A b \in ClampedBlockers : ~Inside(cell, b)
           /\ \A i \in 1..Len(call.free) : ~Inside(cell, call.free[i])

====
